---------------------------- MODULE Spec2Model ----------------------------
(***************************************************************************)
(* Model of the TV display page of the dashboard (src/pages/tv_display.py):*)
(* the lazy shared warehouse connection (get_conn), the query executor     *)
(* (query), the payload builder (_build_tv_payload and its helpers), the   *)
(* lock-guarded payload cache (_tv_cache, update_tv) and the background    *)
(* refresher (_tv_background_worker).                                      *)
(*                                                                         *)
(* Python's None is the empty tuple <<>>; a present value x is <<x>>.      *)
(* A DataFrame is the sequence of its rows; the empty DataFrame is <<>>.   *)
(***************************************************************************)
EXTENDS Integers, Sequences, FiniteSets, TLC

VARIABLES
    cbVal, cbTarget, cbOut,     \* color_bar: the two arguments and the result
    now,                        \* wall clock, in seconds
    wh, version,                \* warehouse rows, and how often they changed
    pc, selected, loc, qcall, qres, issued, cached,   \* per thread
    cache, lock, lastPut,       \* _tv_cache, _tv_cache_lock, last payload put per key
    sleeps, putsNone, wFails,   \* refresher: sleeps elapsed, puts to key None, failed cycles
    maxSeen,                    \* per key: the freshest payload version served so far
    faultsLeft, requests,       \* faultsLeft still to inject, requests received so far
    conns, curConn, gcTrace, gcRet  \* connections made, _conn, get_conn's path and result

colorVars  == <<cbVal, cbTarget, cbOut>>
envVars    == <<now, wh, version, faultsLeft, requests>>
threadVars == <<pc, selected, loc, qcall, qres, issued, cached>>
cacheVars  == <<cache, lock, lastPut, sleeps, putsNone, wFails, maxSeen>>
connVars   == <<conns, curConn, gcTrace, gcRet>>
vars == <<colorVars, envVars, threadVars, cacheVars, connVars>>

None == <<>>
Some(x) == <<x>>
Val(o) == o[1]

-----------------------------------------------------------------------------
(* Bounds of the model.                                                    *)
MinColorVal == 3        \* color_bar arguments range over -MinColorVal..MaxColorVal
MaxColorVal == 21
MaxVersion  == 1        \* changes of the warehouse rows
MaxFaults   == 1        \* injected faultsLeft (failed statements, failed builds)
MaxCycles   == 1        \* sleeps of the refresher
MaxRequests == 3        \* requests the handlers receive
MaxConns    == 3        \* connections created
MaxConnFaults == 2      \* injected faults where the connection is modelled

RefreshInterval == 300  \* time.sleep(300)

-----------------------------------------------------------------------------
(* Helpers: the three-tier status rule.                                    *)

Gray  == "#555555"
Green == "#4CAF50"
Amber == "#FFC107"
Red   == "#F44336"

\* pct = (val - target) / target is kept exact: for target # 0,
\* pct >= c/d  <=>  d * (val - target) * target >= c * target * target.
PctAtLeast(val, target, c, d) ==
    d * (Val(val) - Val(target)) * Val(target) >= c * Val(target) * Val(target)

\* color_bar with the warn tier's lower bound made strict (pct > -0.10).
color_bar_strict(val, target) ==
    IF val = None \/ target = None \/ target = Some(0) THEN Gray
    ELSE IF PctAtLeast(val, target, 0, 1) THEN Green
    ELSE IF 10 * (Val(val) - Val(target)) * Val(target)
                > (-1) * Val(target) * Val(target) THEN Amber
    ELSE Red

color_bar(val, target) ==
    IF val = None \/ target = None \/ target = Some(0) THEN Gray
    ELSE IF PctAtLeast(val, target, 0, 1) THEN Green
    ELSE IF PctAtLeast(val, target, -1, 10) THEN Amber
    ELSE Red


PastelGreen  == <<"#", "C", "8", "E", "6", "C", "9">>
PastelYellow == <<"#", "F", "F", "F", "9", "C", "4">>
PastelRed    == <<"#", "F", "F", "C", "D", "D", "2">>

\* Table cells: float(val) and float(target) of numbers never raise.
color_bar_powerbi(val, target) ==
    IF val = None \/ target = None \/ target = Some(0) THEN PastelGreen
    ELSE IF PctAtLeast(val, target, 0, 1) THEN PastelGreen
    ELSE IF PctAtLeast(val, target, -1, 10) THEN PastelYellow
    ELSE PastelRed

\* A colour code of the view is a string, kept as the sequence of its
\* characters.
UpperChar(c) ==
    CASE c = "a" -> "A" [] c = "b" -> "B" [] c = "c" -> "C"
      [] c = "d" -> "D" [] c = "e" -> "E" [] c = "f" -> "F"
      [] c = "n" -> "N" [] c = "o" -> "O" [] OTHER -> c

HexChars == {"0", "1", "2", "3", "4", "5", "6", "7", "8", "9",
             "A", "B", "C", "D", "E", "F", "#"}

RECURSIVE StripLeft(_)
StripLeft(s) == IF s # <<>> /\ Head(s) = " " THEN StripLeft(Tail(s)) ELSE s

RECURSIVE StripRight(_)
StripRight(s) ==
    IF s # <<>> /\ s[Len(s)] = " " THEN StripRight(SubSeq(s, 1, Len(s) - 1)) ELSE s

\* _normalize_cell_color: None, or the upper-cased code with its leading '#'.
NormalizeCellColor(val) ==
    IF val = None THEN None
    ELSE LET raw == StripRight(StripLeft(Val(val)))
             s   == [i \in 1..Len(raw) |-> UpperChar(raw[i])]
             h   == IF s # <<>> /\ Head(s) = "#" THEN s ELSE <<"#">> \o s
         IN  IF s = <<>> \/ s = <<"N", "A", "N">> \/ s = <<"N", "O", "N", "E">>
             THEN None
             ELSE IF Len(h) >= 7 /\ \A i \in 1..Len(h) : h[i] \in HexChars
                  THEN Some(h)
                  ELSE None

-----------------------------------------------------------------------------
(* Helpers: formatting.                                                    *)

\* Python truthiness of a number or None (bph and bph_target).
Truthy(o) == o # None /\ Val(o) # 0

\* x or 0
OrZero(o) == IF Truthy(o) THEN Val(o) ELSE 0

Min2(a, b) == IF a <= b THEN a ELSE b
Max2(a, b) == IF a >= b THEN a ELSE b

\* A quotient num / den (den # 0) rounded to tenths, ties to even: the text
\* f"{x:.1f}" prints, as a number of tenths.
RoundTenths(num, den) ==
    LET n  == IF den < 0 THEN -num ELSE num
        d  == IF den < 0 THEN -den ELSE den
        fl == (10 * n) \div d
        r2 == 2 * ((10 * n) % d)
    IN  IF r2 < d THEN fl
        ELSE IF r2 > d THEN fl + 1
        ELSE IF fl % 2 = 0 THEN fl ELSE fl + 1

\* strftime("%Y-%m-%d") of the clock: the day the clock is in.
StrftimeDate(t) == IF t < 86400 THEN "D0" ELSE "D1"

\* strftime("%I:%M:%S %p"): a 12-hour clock reading and its AM/PM mark.
StrftimeClock(t) == [hms |-> (t % 86400) % 43200, pm |-> (t % 86400) >= 43200]

-----------------------------------------------------------------------------
(* The payload builder's pure parts.                                       *)

\* f"{value:,.0f}" or f"{value:,.1f}" of a whole number: its digits in
\* units of 10^-dec.
FmtNum(v, dec) == [digits |-> IF dec = 0 THEN v ELSE 10 * v, dec |-> dec]

kpi_card(title, value, goal, delta_pct, color, dec) ==
    [title     |-> title,
     value_str |-> IF value # None THEN Some(FmtNum(Val(value), dec)) ELSE None,
     goal_str  |-> IF Truthy(goal) /\ Val(goal) > 0 /\ value # None
                   THEN Some([goal |-> FmtNum(Val(goal), dec),
                              sign |-> IF delta_pct.num * delta_pct.den >= 0
                                       THEN "+" ELSE "",
                              pct  |-> RoundTenths(delta_pct.num, delta_pct.den)])
                   ELSE None,
     color     |-> color]

\* ((v - t) / t * 100) if v and t else 0, as the fraction num / den.
DeltaPct(v, t) ==
    IF Truthy(v) /\ Truthy(t)
    THEN [num |-> (Val(v) - Val(t)) * 100, den |-> Val(t)]
    ELSE [num |-> 0, den |-> 1]

\* The one card of a selector without a summary row:
\* f"No shift data for {selected_date or 'today'}".
PlaceholderCard(selected_date) ==
    [title     |-> IF selected_date # None THEN Val(selected_date) ELSE "today",
     value_str |-> None,
     goal_str  |-> None,
     color     |-> "no shift data"]

\* Lines 248-285: what the builder derives from the summary table.
KpiStep(selected_date, kpi_df, t) ==
    LET display_date == IF selected_date # None THEN Val(selected_date)
                        ELSE StrftimeDate(t)
    IN  IF kpi_df = <<>> THEN
            [cards          |-> << PlaceholderCard(selected_date) >>,
             header         |-> [date |-> display_date, shift |-> None],
             date_shift_key |-> None,
             deltas         |-> None]
        ELSE
            LET row         == kpi_df[1]
                bph         == row.BINS_PER_HOUR
                bph_target  == row.BIN_HOUR_TARGET_WEIGHTED
                bph_delta   == DeltaPct(bph, bph_target)
                ppmh        == row.STAMPER_PPMH
                ppmh_target == row.PACKS_MANHOUR_TARGET_WEIGHTED
                ppmh_delta  == DeltaPct(ppmh, ppmh_target)
                total_bins  == row.TOTAL_BINS
                bins_target == row.BINS_TARGET_FULL_SHIFT
                bins_delta  == DeltaPct(total_bins, bins_target)
            IN  [cards |-> <<
                    kpi_card("Bins Per Hour", bph, bph_target, bph_delta,
                             color_bar(bph, bph_target), 1),
                    kpi_card("Packs Per Man Hour", ppmh, ppmh_target, ppmh_delta,
                             color_bar(ppmh, ppmh_target), 1),
                    kpi_card("Total Bins", total_bins, bins_target, bins_delta,
                             color_bar(total_bins, bins_target), 0),
                    kpi_card("Packs Per Bin", row.PACKS_PER_BIN, None,
                             [num |-> 0, den |-> 1], "#2d2d2d", 1) >>,
                 header         |-> [date |-> display_date, shift |-> Some(row.SHIFT)],
                 date_shift_key |-> Some(row.DATE_SHIFT_KEY),
                 deltas         |-> Some([bph  |-> bph_delta,
                                          ppmh |-> ppmh_delta,
                                          bins |-> bins_delta])]

\* Lines 288-293: the per-bucket colours added to a non-empty series.
AddChartColors(chart_df) ==
    [i \in 1..Len(chart_df) |->
        chart_df[i] @@
        [PPMH_COLOR |-> color_bar(chart_df[i].EST_PACKS_PER_MAN_HOUR,
                                  chart_df[i].PACKS_MANHOUR_TARGET),
         BPH_COLOR  |-> color_bar(chart_df[i].BINS_PER_HOUR,
                                  chart_df[i].BIN_HOUR_TARGET)]]

build_chart(df, y_col, target_col, title, color_col) ==
    IF df = <<>> \/ y_col \notin DOMAIN df[1] THEN
        [title |-> title, annotation |-> Some("No data"), traces |-> <<>>]
    ELSE
        [title |-> title, annotation |-> None,
         traces |-> <<
            [name |-> "To target",
             x |-> [i \in 1..Len(df) |-> df[i].BUCKET_START],
             y |-> [i \in 1..Len(df) |->
                        Some(Min2(OrZero(df[i][y_col]), OrZero(df[i][target_col])))],
             marker_color |-> [i \in 1..Len(df) |-> df[i][color_col]]],
            [name |-> "Over target",
             x |-> [i \in 1..Len(df) |-> df[i].BUCKET_START],
             y |-> [i \in 1..Len(df) |->
                        Some(Max2(0, OrZero(df[i][y_col]) - OrZero(df[i][target_col])))],
             marker_color |-> [i \in 1..Len(df) |-> Green]],
            [name |-> "Target",
             x |-> [i \in 1..Len(df) |-> df[i].BUCKET_START],
             y |-> [i \in 1..Len(df) |-> df[i][target_col]],
             marker_color |-> [i \in 1..Len(df) |-> "#1565C0"]] >>]

\* Lines 287-298.
ChartStep(chart_df) ==
    LET df == AddChartColors(chart_df)
    IN  [ppmh_fig |-> build_chart(df, "EST_PACKS_PER_MAN_HOUR",
                                  "PACKS_MANHOUR_TARGET", "Packs Per Man Hour",
                                  "PPMH_COLOR"),
         bph_fig  |-> build_chart(df, "BINS_PER_HOUR",
                                  "BIN_HOUR_TARGET", "Bins Per Hour", "BPH_COLOR")]

\* _fmt: the dash for None, else the number to dec places.
Fmt(val, dec) == IF val = None THEN None ELSE Some(FmtNum(Val(val), dec))

HexToClass(hex) ==
    CASE hex = PastelGreen  -> Some("tv-cell-green")
      [] hex = PastelYellow -> Some("tv-cell-yellow")
      [] hex = PastelRed    -> Some("tv-cell-red")
      [] OTHER              -> None

\* _cell with a colour: the CSS class when the colour has one, else the
\* colour as an inline background.
Cell(val, hex_color) ==
    [text      |-> Fmt(val, 1),
     className |-> HexToClass(hex_color),
     bg        |-> IF HexToClass(hex_color) = None THEN Some(hex_color) ELSE None]

PlainCell(text) == [text |-> text, className |-> None, bg |-> None]

\* a or b, for a normalised colour a
OrColor(a, b) == IF a # None THEN Val(a) ELSE b

RunRow(r) ==
    LET bph_hex  == OrColor(NormalizeCellColor(r.BINS_TARGET_COLOR),
                            color_bar_powerbi(r.BINS_PER_HOUR, r.BIN_HOUR_TARGET))
        ppmh_hex == OrColor(NormalizeCellColor(r.PACKS_TARGET_COLOR),
                            color_bar_powerbi(r.STAMPER_PPMH, r.PACKS_MANHOUR_TARGET))
    IN  << PlainCell(Some(r.GROWER_NUMBER)),
           PlainCell(Some(r.VARIETY_ABBR)),
           PlainCell(Some(r.SHIFT)),
           PlainCell(Fmt(r.BINS, 0)),
           Cell(r.BINS_PER_HOUR, bph_hex),
           PlainCell(Fmt(r.BIN_HOUR_TARGET, 1)),
           Cell(r.STAMPER_PPMH, ppmh_hex),
           PlainCell(Fmt(r.PACKS_MANHOUR_TARGET, 1)) >>

\* Lines 300-355.
RunsStep(runs_df, t) ==
    [run_table    |-> IF runs_df = <<>>
                      THEN [marker |-> Some("No active runs"), rows |-> <<>>]
                      ELSE [marker |-> None,
                            rows   |-> [i \in 1..Len(runs_df) |-> RunRow(runs_df[i])]],
     last_updated |-> StrftimeClock(t)]

-----------------------------------------------------------------------------
(* The warehouse.                                                          *)

Selectors == {None, Some("D1")}         \* "Today" and one past date
ShiftKeys == {Some("K0"), Some("K1")}   \* DATE_SHIFT_KEY of their shifts

KpiRow(key, bph, bph_t, ppmh, ppmh_t, bins, bins_t) ==
    [DATE_SHIFT_KEY |-> key, SHIFT |-> "A",
     BINS_PER_HOUR |-> bph, BIN_HOUR_TARGET_WEIGHTED |-> bph_t,
     STAMPER_PPMH |-> ppmh, PACKS_MANHOUR_TARGET_WEIGHTED |-> ppmh_t,
     TOTAL_BINS |-> bins, BINS_TARGET_FULL_SHIFT |-> bins_t,
     PACKS_PER_BIN |-> Some(40)]

Bucket(start, bph, bph_t, ppmh, ppmh_t) ==
    [BUCKET_START |-> start,
     BINS_PER_HOUR |-> bph, BIN_HOUR_TARGET |-> bph_t,
     EST_PACKS_PER_MAN_HOUR |-> ppmh, PACKS_MANHOUR_TARGET |-> ppmh_t,
     MINUTES_ELAPSED |-> Some(10)]

Run(grower, bins, bph, bph_t, ppmh, ppmh_t, bins_color, packs_color) ==
    [GROWER_NUMBER |-> grower, VARIETY_ABBR |-> "GA", SHIFT |-> "A",
     BINS |-> bins, BINS_PER_HOUR |-> bph, STAMPER_PPMH |-> ppmh,
     BIN_HOUR_TARGET |-> bph_t, PACKS_MANHOUR_TARGET |-> ppmh_t,
     BINS_TARGET_COLOR |-> bins_color, PACKS_TARGET_COLOR |-> packs_color]

\* The rows of the three views after v changes: the current shift's figures
\* move with every change, and the past date's rows arrive with the first.
WarehouseAt(v) ==
    [kpi   |-> (None :> << KpiRow("K0", Some(88 + 7 * v), Some(100),
                                  Some(40 + v), Some(40),
                                  Some(10 * v), Some(500)) >>)
            @@ (Some("D1") :> IF v = 0 THEN <<>>
                              ELSE << KpiRow("K1", Some(120), Some(100),
                                             Some(30), Some(0),
                                             Some(600 + v), None) >>),
     chart |-> (Some("K0") :> [i \in 1..v |->
                                  Bucket(i, Some(90 + 5 * i), Some(100),
                                         Some(36 + i), Some(40))])
            @@ (Some("K1") :> << Bucket(1, Some(120), Some(100), None, Some(40)) >>),
     runs  |-> (Some("K0") :> IF v = 0 THEN <<>>
                              ELSE << Run(v, Some(10 * v), Some(95), Some(100),
                                          Some(30), Some(40),
                                          Some(<<"f", "f", "c", "d", "d", "2">>),
                                          None) >>)
            @@ (Some("K1") :> << Run(7, Some(600), Some(120), Some(100),
                                     None, Some(40), Some(<<"n", "a", "n">>),
                                     Some(<<"#", "1", "2">>)) >>)]

\* The rows a statement selects.
Rows(w, kind, arg) ==
    CASE kind = "kpi"   -> w.kpi[arg]
      [] kind = "chart" -> w.chart[arg]
      [] kind = "runs"  -> w.runs[arg]

\* query, seen from its caller: the table on success, the empty table on
\* any exception.
QueryResult(ok, rows) == IF ok THEN rows ELSE <<>>

-----------------------------------------------------------------------------
(* Threads: the background refresher and the request handlers.             *)

Worker   == "w"
Handlers == {"h1", "h2"}
Threads  == {Worker} \cup Handlers

\* The locals of one run of _build_tv_payload: the summary table, what each
\* of its three parts has produced so far, the warehouse version each fetch
\* read, and the fetches that failed.
EmptyLoc == [kpi_df |-> None, kpi |-> None, chart |-> None, runs |-> None,
             vers |-> [kpi |-> None, chart |-> None, runs |-> None],
             failed |-> <<>>]

\* return (cards, ppmh_fig, bph_fig, run_table, header, last_updated);
\* built records the selector and the fetches the payload comes from.
\* The variant returns before the run table is made.
BuildResultEarly(l, selected_date) ==
    [cards        |-> Val(l.kpi).cards,
     ppmh_fig     |-> Val(l.chart).ppmh_fig,
     bph_fig      |-> Val(l.chart).bph_fig,
     run_table    |-> None,
     header       |-> Val(l.kpi).header,
     last_updated |-> Val(l.runs).last_updated,
     built        |-> [sel |-> selected_date, vers |-> l.vers]]

\* The variant stamps the time of the build on the run table.
BuildResultStamped(l, selected_date) ==
    [cards        |-> Val(l.kpi).cards,
     ppmh_fig     |-> Val(l.chart).ppmh_fig,
     bph_fig      |-> Val(l.chart).bph_fig,
     run_table    |-> [marker |-> Val(l.runs).run_table.marker,
                       rows   |-> Val(l.runs).run_table.rows,
                       built  |-> Val(l.runs).last_updated],
     header       |-> Val(l.kpi).header,
     last_updated |-> Val(l.runs).last_updated,
     built        |-> [sel |-> selected_date, vers |-> l.vers]]

BuildResult(l, selected_date) ==
    [cards        |-> Val(l.kpi).cards,
     ppmh_fig     |-> Val(l.chart).ppmh_fig,
     bph_fig      |-> Val(l.chart).bph_fig,
     run_table    |-> Val(l.runs).run_table,
     header       |-> Val(l.kpi).header,
     last_updated |-> Val(l.runs).last_updated,
     built        |-> [sel |-> selected_date, vers |-> l.vers]]

\* _tv_cache.get(cache_key); the variant looks up "Today" whatever the key.
CacheGetToday(c, k) == IF None \in DOMAIN c THEN Some(c[None]) ELSE None

CacheGet(c, k) == IF k \in DOMAIN c THEN Some(c[k]) ELSE None

\* _tv_cache[cache_key] = payload
CachePut(c, k, p) == [x \in DOMAIN c \cup {k} |-> IF x = k THEN p ELSE c[x]]

\* The version of the warehouse a payload's summary was fetched at.
Freshness(p) == Val(p.built.vers.kpi)

\* Where _build_tv_payload returns to: _refresh_cache_today or update_tv.
AfterBuild(t) == IF t = Worker THEN "w_lock" ELSE "u_lock2"

\* get_kpi_totals(selected_date) and lines 249-285.
BuildKpi(t) ==
    /\ pc[t] = "b_kpi"
    /\ \E ok \in BOOLEAN :
        /\ ~ok => faultsLeft > 0
        /\ faultsLeft' = IF ok THEN faultsLeft ELSE faultsLeft - 1
        /\ LET kpi_df == QueryResult(ok, Rows(wh, "kpi", selected[t])) IN
            loc' = [loc EXCEPT
                ![t].kpi_df = Some(kpi_df),
                ![t].kpi = Some(KpiStep(selected[t], kpi_df, now)),
                ![t].vers.kpi = Some(version),
                ![t].failed = IF ok THEN @ ELSE Append(@, "kpi")]
    /\ issued' = [issued EXCEPT ![t] = Append(@, "kpi")]
    /\ pc' = [pc EXCEPT ![t] = "b_chart"]
    /\ UNCHANGED <<colorVars, now, wh, version, requests, selected, qcall, qres, cached,
                   cacheVars, connVars>>

\* get_chart_data without its "if not date_shift_key" guard: the statement
\* is run for a missing key too, and selects nothing.
BuildChartUnguarded(t) ==
    /\ pc[t] = "b_chart"
    /\ LET key == Val(loc[t].kpi).date_shift_key IN
        \E ok \in BOOLEAN :
            /\ ~ok => faultsLeft > 0
            /\ faultsLeft' = IF ok THEN faultsLeft ELSE faultsLeft - 1
            /\ loc' = [loc EXCEPT
                    ![t].chart = Some(ChartStep(
                        QueryResult(ok, IF key = None THEN <<>>
                                        ELSE Rows(wh, "chart", key)))),
                    ![t].vers.chart = Some(version)]
    /\ issued' = [issued EXCEPT ![t] = Append(@, "chart")]
    /\ pc' = [pc EXCEPT ![t] = "b_runs"]
    /\ UNCHANGED <<colorVars, now, wh, version, requests, selected, qcall, qres, cached,
                   cacheVars, connVars>>

\* get_chart_data(date_shift_key) and lines 288-298: no statement is run
\* without a shift key.
BuildChart(t) ==
    /\ pc[t] = "b_chart"
    /\ LET key == Val(loc[t].kpi).date_shift_key IN
        IF key = None THEN
            /\ loc' = [loc EXCEPT ![t].chart = Some(ChartStep(<<>>))]
            /\ UNCHANGED <<issued, faultsLeft>>
        ELSE
            /\ \E ok \in BOOLEAN :
                /\ ~ok => faultsLeft > 0
                /\ faultsLeft' = IF ok THEN faultsLeft ELSE faultsLeft - 1
                /\ loc' = [loc EXCEPT
                        ![t].chart = Some(ChartStep(
                                        QueryResult(ok, Rows(wh, "chart", key)))),
                        ![t].vers.chart = Some(version),
                        ![t].failed = IF ok THEN @ ELSE Append(@, "chart")]
            /\ issued' = [issued EXCEPT ![t] = Append(@, "chart")]
    /\ pc' = [pc EXCEPT ![t] = "b_runs"]
    /\ UNCHANGED <<colorVars, now, wh, version, requests, selected, qcall, qres, cached,
                   cacheVars, connVars>>

\* get_current_runs(date_shift_key) and lines 301-356.
BuildRuns(t) ==
    /\ pc[t] = "b_runs"
    /\ LET key == Val(loc[t].kpi).date_shift_key IN
        IF key = None THEN
            /\ loc' = [loc EXCEPT ![t].runs = Some(RunsStep(<<>>, now))]
            /\ UNCHANGED <<issued, faultsLeft>>
        ELSE
            /\ \E ok \in BOOLEAN :
                /\ ~ok => faultsLeft > 0
                /\ faultsLeft' = IF ok THEN faultsLeft ELSE faultsLeft - 1
                /\ loc' = [loc EXCEPT
                        ![t].runs = Some(RunsStep(
                                        QueryResult(ok, Rows(wh, "runs", key)), now)),
                        ![t].vers.runs = Some(version),
                        ![t].failed = IF ok THEN @ ELSE Append(@, "runs")]
            /\ issued' = [issued EXCEPT ![t] = Append(@, "runs")]
    /\ pc' = [pc EXCEPT ![t] = AfterBuild(t)]
    /\ UNCHANGED <<colorVars, now, wh, version, requests, selected, qcall, qres, cached,
                   cacheVars, connVars>>

\* A payload is served for key k: the freshest served so far is kept.
Serve(k, p) == maxSeen' = [maxSeen EXCEPT ![k] = Max2(@, Freshness(p))]

\* _refresh_cache_today: with _tv_cache_lock
RefreshAcquire(t) ==
    /\ t = Worker
    /\ pc[t] = "w_lock"
    /\ lock = None
    /\ lock' = Some(t)
    /\ pc' = [pc EXCEPT ![t] = "w_put"]
    /\ UNCHANGED <<colorVars, envVars, selected, loc, qcall, qres, issued, cached,
                   cache, lastPut, sleeps, putsNone, wFails, maxSeen,
                   connVars>>

\* _refresh_cache_today: _tv_cache[None] = payload, and the lock's release
RefreshPut(t) ==
    /\ t = Worker
    /\ pc[t] = "w_put"
    /\ LET payload == BuildResult(loc[t], None) IN
        /\ cache' = CachePut(cache, None, payload)
        /\ lastPut' = (None :> payload) @@ lastPut
    /\ lock' = None
    /\ putsNone' = putsNone + 1
    /\ loc' = [loc EXCEPT ![t] = EmptyLoc]
    /\ issued' = [issued EXCEPT ![t] = <<>>]
    /\ pc' = [pc EXCEPT ![t] = "w_sleep"]
    /\ UNCHANGED <<colorVars, envVars, selected, qcall, qres, cached,
                   sleeps, wFails, maxSeen, connVars>>

\* _refresh_cache_today without its try: the exception ends the thread.
RefreshUncaught(t) ==
    /\ t = Worker
    /\ pc[t] = "b_chart"
    /\ faultsLeft > 0
    /\ faultsLeft' = faultsLeft - 1
    /\ wFails' = wFails + 1
    /\ loc' = [loc EXCEPT ![t] = EmptyLoc]
    /\ issued' = [issued EXCEPT ![t] = <<>>]
    /\ pc' = [pc EXCEPT ![t] = "dead"]
    /\ UNCHANGED <<colorVars, now, wh, version, requests, selected, qcall, qres, cached,
                   cache, lock, lastPut, sleeps, putsNone, maxSeen,
                   connVars>>

\* _refresh_cache_today: except Exception, for a build that raises after
\* its summary fetch.
RefreshExcept(t) ==
    /\ t = Worker
    /\ pc[t] = "b_chart"
    /\ faultsLeft > 0
    /\ faultsLeft' = faultsLeft - 1
    /\ wFails' = wFails + 1
    /\ loc' = [loc EXCEPT ![t] = EmptyLoc]
    /\ issued' = [issued EXCEPT ![t] = <<>>]
    /\ pc' = [pc EXCEPT ![t] = "w_sleep"]
    /\ UNCHANGED <<colorVars, now, wh, version, requests, selected, qcall, qres, cached,
                   cache, lock, lastPut, sleeps, putsNone, maxSeen,
                   connVars>>

\* _tv_background_worker: time.sleep(300), then the next _refresh_cache_today
Sleep(t) ==
    /\ t = Worker
    /\ pc[t] = "w_sleep"
    /\ sleeps < MaxCycles
    /\ sleeps' = sleeps + 1
    /\ now' = now + RefreshInterval
    /\ pc' = [pc EXCEPT ![t] = "b_kpi"]
    /\ UNCHANGED <<colorVars, wh, version, faultsLeft, requests, selected, loc, qcall, qres,
                   issued, cached, cache, lock, lastPut, putsNone, wFails,
                   maxSeen, connVars>>

\* update_tv is called with the date the dropdown holds, and enters its
\* first with _tv_cache_lock. Requests go to the first free handler.
Request(t) ==
    /\ t \in Handlers
    /\ pc[t] = "idle"
    /\ t = "h2" => pc["h1"] # "idle"
    /\ requests < MaxRequests
    /\ requests' = requests + 1
    /\ lock = None
    /\ lock' = Some(t)
    /\ \E sel \in Selectors : selected' = [selected EXCEPT ![t] = sel]
    /\ pc' = [pc EXCEPT ![t] = "u_get"]
    /\ UNCHANGED <<colorVars, now, wh, version, faultsLeft, loc, qcall, qres, issued, cached,
                   cache, lastPut, sleeps, putsNone, wFails, maxSeen, connVars>>

\* update_tv: cached = _tv_cache.get(cache_key), and the lock's release; a
\* hit is the payload this request serves.
GetRelease(t) ==
    /\ t \in Handlers
    /\ pc[t] = "u_get"
    /\ cached' = [cached EXCEPT ![t] = CacheGet(cache, selected[t])]
    /\ lock' = None
    /\ IF cached'[t] # None
       THEN /\ pc' = [pc EXCEPT ![t] = "u_hit"]
            /\ Serve(selected[t], Val(cached'[t]))
       ELSE /\ pc' = [pc EXCEPT ![t] = "b_kpi"]
            /\ UNCHANGED maxSeen
    /\ UNCHANGED <<colorVars, envVars, selected, loc, qcall, qres, issued,
                   cache, lastPut, sleeps, putsNone, wFails, connVars>>

\* update_tv: return cached[4], cached[5], _main_block_children(cached)
ReturnHit(t) ==
    /\ t \in Handlers
    /\ pc[t] = "u_hit"
    /\ cached' = [cached EXCEPT ![t] = None]
    /\ selected' = [selected EXCEPT ![t] = None]
    /\ pc' = [pc EXCEPT ![t] = "idle"]
    /\ UNCHANGED <<colorVars, envVars, loc, qcall, qres, issued,
                   cacheVars, connVars>>

\* update_tv: the second with _tv_cache_lock
AcquirePut(t) ==
    /\ t \in Handlers
    /\ pc[t] = "u_lock2"
    /\ lock = None
    /\ lock' = Some(t)
    /\ pc' = [pc EXCEPT ![t] = "u_put"]
    /\ UNCHANGED <<colorVars, envVars, selected, loc, qcall, qres, issued, cached,
                   cache, lastPut, sleeps, putsNone, wFails, maxSeen,
                   connVars>>

\* update_tv: _tv_cache[cache_key] = payload, the lock's release and the
\* return of the payload just built
PutRelease(t) ==
    /\ t \in Handlers
    /\ pc[t] = "u_put"
    /\ LET payload == BuildResult(loc[t], selected[t]) IN
        /\ cache' = CachePut(cache, selected[t], payload)
        /\ lastPut' = (selected[t] :> payload) @@ lastPut
        /\ Serve(selected[t], payload)
    /\ lock' = None
    /\ putsNone' = IF selected[t] = None THEN putsNone + 1 ELSE putsNone
    /\ loc' = [loc EXCEPT ![t] = EmptyLoc]
    /\ issued' = [issued EXCEPT ![t] = <<>>]
    /\ selected' = [selected EXCEPT ![t] = None]
    /\ pc' = [pc EXCEPT ![t] = "idle"]
    /\ UNCHANGED <<colorVars, envVars, qcall, qres, cached, sleeps, wFails, connVars>>

\* update_tv: a build that raises after its summary fetch ends the request
\* without a write.
UpdateTvRaise(t) ==
    /\ t \in Handlers
    /\ pc[t] = "b_chart"
    /\ faultsLeft > 0
    /\ faultsLeft' = faultsLeft - 1
    /\ loc' = [loc EXCEPT ![t] = EmptyLoc]
    /\ issued' = [issued EXCEPT ![t] = <<>>]
    /\ selected' = [selected EXCEPT ![t] = None]
    /\ pc' = [pc EXCEPT ![t] = "idle"]
    /\ UNCHANGED <<colorVars, now, wh, version, requests, qcall, qres, cached, cacheVars, connVars>>

\* The warehouse's rows change.
DataChange ==
    /\ version < MaxVersion
    /\ version' = version + 1
    /\ wh' = WarehouseAt(version + 1)
    /\ UNCHANGED <<colorVars, now, faultsLeft, requests, threadVars, cacheVars, connVars>>

-----------------------------------------------------------------------------
(* get_conn and query, step by step.  conns[i] is the state of the i-th    *)
(* connection made; gcTrace[t] is what thread t's current call of query    *)
(* has been through: the events of its get_conn, the handle _conn held     *)
(* when get_conn looked, the connections it made, and what failed.         *)

NoCall == [events |-> <<>>, entry |-> None, made |-> <<>>, failed |-> None]

\* The call of query made for a fetch of the builder.
Call(t, kind, arg) ==
    /\ qcall' = [qcall EXCEPT ![t] = Some([kind |-> kind, arg |-> arg])]
    /\ issued' = [issued EXCEPT ![t] = Append(@, kind)]
    /\ gcTrace' = [gcTrace EXCEPT ![t] = NoCall]
    /\ pc' = [pc EXCEPT ![t] = "gc_check"]

\* _conn is None or _conn.is_closed(), when is_closed() answers
Stale == IF curConn = None THEN TRUE ELSE conns[Val(curConn)] = "closed"

\* get_conn: if _conn is None or _conn.is_closed()
GcCheck(t) ==
    /\ pc[t] = "gc_check"
    /\ \/ /\ Stale
          /\ gcTrace' = [gcTrace EXCEPT ![t].events = <<"stale">>,
                                        ![t].entry = curConn]
          /\ pc' = [pc EXCEPT ![t] = "gc_connect"]
          /\ UNCHANGED faultsLeft
       \/ /\ ~Stale
          /\ gcTrace' = [gcTrace EXCEPT ![t].events = <<"open">>,
                                        ![t].entry = curConn]
          /\ pc' = [pc EXCEPT ![t] = "gc_return"]
          /\ UNCHANGED faultsLeft
       \/ /\ curConn # None
          /\ faultsLeft > 0
          /\ faultsLeft' = faultsLeft - 1
          /\ gcTrace' = [gcTrace EXCEPT ![t].events = <<"check_failed">>,
                                        ![t].entry = curConn]
          /\ pc' = [pc EXCEPT ![t] = "gc_fallback"]
    /\ UNCHANGED <<colorVars, now, wh, version, requests, selected, loc, qcall, qres,
                   issued, cached, cacheVars, conns, curConn, gcRet>>

\* snowflake.connector.connect(...) and the assignment to _conn
Connect(t) ==
    /\ Len(conns) < MaxConns
    /\ conns' = Append(conns, "open")
    /\ curConn' = Some(Len(conns) + 1)
    /\ gcTrace' = [gcTrace EXCEPT ![t].events = Append(@, "created"),
                                  ![t].made = Append(@, Len(conns) + 1)]
    /\ pc' = [pc EXCEPT ![t] = "gc_return"]
    /\ UNCHANGED faultsLeft

ConnectFails(t, next) ==
    /\ faultsLeft > 0
    /\ faultsLeft' = faultsLeft - 1
    /\ gcTrace' = [gcTrace EXCEPT
            ![t].events = Append(@, "create_failed"),
            ![t].failed = IF next = "q_except" THEN Some("connect") ELSE @]
    /\ pc' = [pc EXCEPT ![t] = next]
    /\ UNCHANGED <<conns, curConn>>

\* get_conn: the connect of the try block
GcConnect(t) ==
    /\ pc[t] = "gc_connect"
    /\ Connect(t) \/ ConnectFails(t, "gc_fallback")
    /\ UNCHANGED <<colorVars, now, wh, version, requests, selected, loc, qcall, qres,
                   issued, cached, cacheVars, gcRet>>

\* get_conn whose except block tries again whenever its connect fails.
GcFallbackRetries(t) ==
    /\ pc[t] = "gc_fallback"
    /\ Connect(t) \/ ConnectFails(t, "gc_fallback")
    /\ UNCHANGED <<colorVars, now, wh, version, requests, selected, loc, qcall, qres,
                   issued, cached, cacheVars, gcRet>>

\* get_conn: the connect of the except block; its exception leaves get_conn
\* and reaches query's except block.
GcFallback(t) ==
    /\ pc[t] = "gc_fallback"
    /\ Connect(t) \/ ConnectFails(t, "q_except")
    /\ UNCHANGED <<colorVars, now, wh, version, requests, selected, loc, qcall, qres,
                   issued, cached, cacheVars, gcRet>>

\* get_conn: return _conn
GcReturn(t) ==
    /\ pc[t] = "gc_return"
    /\ gcRet' = [gcRet EXCEPT ![t] = curConn]
    /\ pc' = [pc EXCEPT ![t] = "q_execute"]
    /\ UNCHANGED <<colorVars, envVars, selected, loc, qcall, qres, issued, cached,
                   cacheVars, conns, curConn, gcTrace>>

\* query: cursor = conn.cursor(); cursor.execute(sql); cols = ...
\* A closed connection raises; so may the statement on an open one.
QExecute(t) ==
    /\ pc[t] = "q_execute"
    /\ \/ /\ conns[Val(gcRet[t])] = "open"
          /\ pc' = [pc EXCEPT ![t] = "q_fetch"]
          /\ UNCHANGED <<faultsLeft, gcTrace>>
       \/ /\ conns[Val(gcRet[t])] = "closed"
          /\ gcTrace' = [gcTrace EXCEPT ![t].failed = Some("execute")]
          /\ pc' = [pc EXCEPT ![t] = "q_except"]
          /\ UNCHANGED faultsLeft
       \/ /\ faultsLeft > 0
          /\ faultsLeft' = faultsLeft - 1
          /\ gcTrace' = [gcTrace EXCEPT ![t].failed = Some("execute")]
          /\ pc' = [pc EXCEPT ![t] = "q_except"]
    /\ UNCHANGED <<colorVars, now, wh, version, requests, selected, loc, qcall, qres,
                   issued, cached, cacheVars, conns, curConn, gcRet>>

\* query: rows = cursor.fetchall(); return pd.DataFrame(rows, columns=cols)
QFetch(t) ==
    /\ pc[t] = "q_fetch"
    /\ \/ /\ qres' = [qres EXCEPT ![t] =
                        Some(Rows(wh, Val(qcall[t]).kind, Val(qcall[t]).arg))]
          /\ pc' = [pc EXCEPT ![t] = "q_ret"]
          /\ UNCHANGED <<faultsLeft, gcTrace>>
       \/ /\ faultsLeft > 0
          /\ faultsLeft' = faultsLeft - 1
          /\ gcTrace' = [gcTrace EXCEPT ![t].failed = Some("fetch")]
          /\ pc' = [pc EXCEPT ![t] = "q_except"]
          /\ UNCHANGED qres
    /\ UNCHANGED <<colorVars, now, wh, version, requests, selected, loc, qcall,
                   issued, cached, cacheVars, conns, curConn, gcRet>>

\* query whose except block lets the exception go on to the caller.
QExceptReraises(t) ==
    /\ pc[t] = "q_except"
    /\ pc' = [pc EXCEPT ![t] = "raised"]
    /\ UNCHANGED <<colorVars, envVars, selected, loc, qcall, qres, issued, cached,
                   cacheVars, connVars>>

\* query: except Exception: print(...); return pd.DataFrame()
QExcept(t) ==
    /\ pc[t] = "q_except"
    /\ qres' = [qres EXCEPT ![t] = Some(<<>>)]
    /\ pc' = [pc EXCEPT ![t] = "q_ret"]
    /\ UNCHANGED <<colorVars, envVars, selected, loc, qcall, issued, cached,
                   cacheVars, connVars>>

\* The server ends an open connection's session.
ConnDrop ==
    /\ faultsLeft > 0
    /\ faultsLeft' = faultsLeft - 1
    /\ \E i \in 1..Len(conns) :
        /\ conns[i] = "open"
        /\ conns' = [conns EXCEPT ![i] = "closed"]
    /\ UNCHANGED <<colorVars, now, wh, version, requests, threadVars, cacheVars,
                   curConn, gcTrace, gcRet>>

\* What the builder keeps of a returned table, and the end of the call.
Returned(t, kind) ==
    /\ pc[t] = "q_ret"
    /\ Val(qcall[t]).kind = kind
    /\ qcall' = [qcall EXCEPT ![t] = None]
    /\ qres' = [qres EXCEPT ![t] = None]
    /\ gcTrace' = [gcTrace EXCEPT ![t] = NoCall]
    /\ gcRet' = [gcRet EXCEPT ![t] = None]

Failed(t, kind) == IF gcTrace[t].failed # None THEN <<kind>> ELSE <<>>

\* get_kpi_totals(selected_date): the call of query
KpiCall(t) ==
    /\ pc[t] = "b_kpi"
    /\ Call(t, "kpi", selected[t])
    /\ UNCHANGED <<colorVars, envVars, selected, loc, qres, cached, cacheVars,
                   conns, curConn, gcRet>>

\* lines 248-285, on the table query returned
KpiRet(t) ==
    /\ Returned(t, "kpi")
    /\ loc' = [loc EXCEPT
            ![t].kpi_df = qres[t],
            ![t].kpi = Some(KpiStep(selected[t], Val(qres[t]), now)),
            ![t].vers.kpi = Some(version),
            ![t].failed = @ \o Failed(t, "kpi")]
    /\ pc' = [pc EXCEPT ![t] = "b_chart"]
    /\ UNCHANGED <<colorVars, envVars, selected, issued, cached, cacheVars,
                   conns, curConn>>

\* get_chart_data(date_shift_key): the empty table without a key, else the
\* call of query
ChartCall(t) ==
    /\ pc[t] = "b_chart"
    /\ LET key == Val(loc[t].kpi).date_shift_key IN
        IF key = None THEN
            /\ loc' = [loc EXCEPT ![t].chart = Some(ChartStep(<<>>))]
            /\ pc' = [pc EXCEPT ![t] = "b_runs"]
            /\ UNCHANGED <<qcall, issued, gcTrace>>
        ELSE
            /\ Call(t, "chart", key)
            /\ UNCHANGED loc
    /\ UNCHANGED <<colorVars, envVars, selected, qres, cached, cacheVars,
                   conns, curConn, gcRet>>

\* lines 288-298, on the table query returned
ChartRet(t) ==
    /\ Returned(t, "chart")
    /\ loc' = [loc EXCEPT
            ![t].chart = Some(ChartStep(Val(qres[t]))),
            ![t].vers.chart = Some(version),
            ![t].failed = @ \o Failed(t, "chart")]
    /\ pc' = [pc EXCEPT ![t] = "b_runs"]
    /\ UNCHANGED <<colorVars, envVars, selected, issued, cached, cacheVars,
                   conns, curConn>>

\* get_current_runs(date_shift_key): the empty table without a key, else
\* the call of query
RunsCall(t) ==
    /\ pc[t] = "b_runs"
    /\ LET key == Val(loc[t].kpi).date_shift_key IN
        IF key = None THEN
            /\ loc' = [loc EXCEPT ![t].runs = Some(RunsStep(<<>>, now))]
            /\ pc' = [pc EXCEPT ![t] = AfterBuild(t)]
            /\ UNCHANGED <<qcall, issued, gcTrace>>
        ELSE
            /\ Call(t, "runs", key)
            /\ UNCHANGED loc
    /\ UNCHANGED <<colorVars, envVars, selected, qres, cached, cacheVars,
                   conns, curConn, gcRet>>

\* lines 301-356, on the table query returned
RunsRet(t) ==
    /\ Returned(t, "runs")
    /\ loc' = [loc EXCEPT
            ![t].runs = Some(RunsStep(Val(qres[t]), now)),
            ![t].vers.runs = Some(version),
            ![t].failed = @ \o Failed(t, "runs")]
    /\ pc' = [pc EXCEPT ![t] = AfterBuild(t)]
    /\ UNCHANGED <<colorVars, envVars, selected, issued, cached, cacheVars,
                   conns, curConn>>

-----------------------------------------------------------------------------
(* The page as it runs: the refresher and two request handlers over the    *)
(* cache, each query one step.                                             *)

ColorIdle == cbVal = None /\ cbTarget = None /\ cbOut = "idle"

ConnIdle ==
    /\ conns = <<>>
    /\ curConn = None
    /\ gcTrace = [t \in Threads |-> NoCall]
    /\ gcRet = [t \in Threads |-> None]

CacheEmpty ==
    /\ cache = <<>>
    /\ lock = None
    /\ lastPut = <<>>
    /\ sleeps = 0
    /\ putsNone = 0
    /\ wFails = 0
    /\ maxSeen = [k \in Selectors |-> -1]

ThreadsAt(start) ==
    /\ pc = start
    /\ selected = [t \in Threads |-> None]
    /\ loc = [t \in Threads |-> EmptyLoc]
    /\ qcall = [t \in Threads |-> None]
    /\ qres = [t \in Threads |-> None]
    /\ issued = [t \in Threads |-> <<>>]
    /\ cached = [t \in Threads |-> None]

Init ==
    /\ ColorIdle
    /\ ConnIdle
    /\ CacheEmpty
    /\ ThreadsAt([t \in Threads |-> IF t = Worker THEN "b_kpi" ELSE "idle"])
    /\ now = 0
    /\ version = 0
    /\ wh = WarehouseAt(0)
    /\ faultsLeft = 0
    /\ requests = 0

Next ==
    \/ DataChange
    \/ \E t \in Threads :
        \/ BuildKpi(t)
        \/ BuildChart(t)
        \/ BuildRuns(t)
        \/ RefreshAcquire(t)
        \/ RefreshPut(t)
        \/ Sleep(t)
        \/ Request(t)
        \/ GetRelease(t)
        \/ ReturnHit(t)
        \/ AcquirePut(t)
        \/ PutRelease(t)

Spec == Init /\ [][Next]_vars

-----------------------------------------------------------------------------
(* The refresher beside one request handler, with statements and builds    *)
(* that may fail.                                                          *)

InitRefresh ==
    /\ ColorIdle
    /\ ConnIdle
    /\ CacheEmpty
    /\ ThreadsAt([t \in Threads |-> CASE t = Worker -> "b_kpi"
                                      [] t = "h1"   -> "idle"
                                      [] OTHER      -> "off"])
    /\ now = 0
    /\ version = 0
    /\ wh = WarehouseAt(0)
    /\ faultsLeft = MaxFaults
    /\ requests = 0

NextRefresh ==
    \/ Next
    \/ \E t \in Threads :
        \/ RefreshExcept(t)
        \/ UpdateTvRaise(t)

SpecRefresh == InitRefresh /\ [][NextRefresh]_vars

-----------------------------------------------------------------------------
(* Properties of the cache and the refresher.                              *)

\* All six components of a payload are there.
Complete(p) ==
    /\ p.cards # None
    /\ p.ppmh_fig # None
    /\ p.bph_fig # None
    /\ p.run_table # None
    /\ p.header # None
    /\ p.last_updated # None

BuildPcs == {"b_kpi", "b_chart", "b_runs"}

\* C2: a handler's cache read for key k returns exactly the payload of the
\* most recent write to k, and a miss iff k was never written; no step
\* removes an entry, so a key once written is a hit ever after.
C2_ReadReturnsLastWrite ==
    [][ /\ \A t \in Handlers :
            (pc[t] = "u_get" /\ pc'[t] # "u_get") =>
                /\ cached'[t] = IF selected[t] \in DOMAIN lastPut
                                THEN Some(lastPut[selected[t]])
                                ELSE None
                /\ (pc'[t] = "u_hit") = (selected[t] \in DOMAIN lastPut)
        /\ DOMAIN cache \subseteq DOMAIN cache'
      ]_vars

\* A handler holds a hit for "Today" that is the latest of several writes,
\* while the cache also holds the past date.
C2_Witness ==
    \E t \in Handlers :
        /\ pc[t] = "u_hit"
        /\ selected[t] = None
        /\ putsNone >= 2
        /\ Some("D1") \in DOMAIN cache
        /\ cached[t] = Some(lastPut[None])

\* C3: every cached value under key k is a finished payload built for
\* selector k, a reader only ever holds a finished payload, and whoever
\* holds the cache lock is at a cache read or write, never in a build.
C3_OnlyFinishedPayloads ==
    /\ \A k \in DOMAIN cache :
        /\ Complete(cache[k])
        /\ cache[k].built.sel = k
        /\ cache[k].header.date = (IF k # None THEN Val(k) ELSE StrftimeDate(now))
    /\ \A t \in Handlers : cached[t] # None => Complete(Val(cached[t]))
    /\ \A t \in Threads :
        /\ lock = Some(t) => pc[t] \in {"u_get", "u_put", "w_put"}
        /\ pc[t] \in BuildPcs => lock # Some(t)

\* One thread holds the lock for its write while another is in the middle
\* of a build and the cache holds both keys.
C3_Witness ==
    \E t, u \in Threads :
        /\ lock = Some(t)
        /\ pc[t] \in {"u_put", "w_put"}
        /\ pc[u] = "b_runs"
        /\ DOMAIN cache = Selectors

\* C4: for each key, a read of the cache never returns a payload built from
\* an earlier fetch than a payload already served for that key.
C4_FreshnessNeverRegresses ==
    [][ \A t \in Handlers :
            (pc[t] = "u_get" /\ pc'[t] = "u_hit") =>
                Freshness(Val(cached'[t])) >= maxSeen[selected[t]]
      ]_vars

\* C5 as stated: once the interval has elapsed N times, "Today" has been
\* written at least N times.
C5_WritesPerInterval == putsNone >= sleeps

\* C5, amended: the refresher never stops, every refresh cycle it has
\* finished either wrote "Today" or failed and was caught, and it finishes
\* one cycle before its first sleep and one after each; so after N sleeps
\* "Today" has been written at least N minus the number of failed cycles
\* times.
C5_WritesOrCaughtFailures ==
    /\ pc[Worker] \in BuildPcs \cup {"w_lock", "w_put", "w_sleep"}
    /\ putsNone + wFails >= sleeps + (IF pc[Worker] = "w_sleep" THEN 1 ELSE 0)

\* Of the refresher's two cycles one wrote the "current" entry and one
\* failed and was caught, and the refresher is asleep again.
C5_Witness ==
    /\ wFails = 1
    /\ sleeps >= 1
    /\ putsNone = sleeps
    /\ requests = 0
    /\ pc[Worker] = "w_sleep"

-----------------------------------------------------------------------------
(* color_bar on its own, over every pair of arguments.                     *)

ColorValues == {None} \cup {Some(n) : n \in (-MinColorVal)..MaxColorVal}

AllOff ==
    /\ ConnIdle
    /\ CacheEmpty
    /\ ThreadsAt([t \in Threads |-> "off"])
    /\ now = 0
    /\ version = 0
    /\ wh = WarehouseAt(0)
    /\ faultsLeft = 0
    /\ requests = 0

InitColor ==
    /\ cbVal \in ColorValues
    /\ cbTarget \in ColorValues
    /\ cbOut = "pending"
    /\ AllOff

ApplyColorBar ==
    /\ cbOut = "pending"
    /\ cbOut' = color_bar(cbVal, cbTarget)
    /\ UNCHANGED <<cbVal, cbTarget, envVars, threadVars, cacheVars, connVars>>

SpecColor == InitColor /\ [][ApplyColorBar]_vars

\* C1: color_bar is gray when the value or the target is None or the target
\* is 0; for a target above 0 it is green iff value >= target, amber iff
\* 0.9 * target <= value < target, and red iff value < 0.9 * target.
C1_ThreeTierRule ==
    cbOut # "pending" =>
        /\ (cbVal = None \/ cbTarget = None \/ cbTarget = Some(0)) => cbOut = Gray
        /\ (cbVal # None /\ cbTarget # None /\ cbTarget # Some(0)) =>
            (Val(cbTarget) > 0 =>
                /\ (cbOut = Green) <=> (Val(cbVal) >= Val(cbTarget))
                /\ (cbOut = Amber) <=> (/\ 9 * Val(cbTarget) <= 10 * Val(cbVal)
                                        /\ Val(cbVal) < Val(cbTarget))
                /\ (cbOut = Red)   <=> (10 * Val(cbVal) < 9 * Val(cbTarget)))

\* The value sits exactly on 0.9 * target and is amber.
C1_Witness == cbOut = Amber /\ cbTarget = Some(20) /\ cbVal = Some(18)

-----------------------------------------------------------------------------
(* One request on an empty cache, over every summary row: the builder as   *)
(* update_tv runs it on a miss.                                            *)

CardValues  == {None, Some(0), Some(88), Some(95), Some(120)}
CardTargets == {None, Some(0), Some(100)}

\* The summary view holds no row, or one row, for whichever date is asked.
SummaryTables ==
    {<<>>} \cup
    { << KpiRow("K0", bph, bph_t, ppmh, ppmh_t, bins, bins_t) >> :
        bph \in CardValues, bph_t \in CardTargets,
        ppmh \in CardValues, ppmh_t \in CardTargets,
        bins \in CardValues, bins_t \in CardTargets }

InitBuild ==
    /\ ColorIdle
    /\ ConnIdle
    /\ CacheEmpty
    /\ ThreadsAt([t \in Threads |-> IF t = "h1" THEN "idle" ELSE "off"])
    /\ now = 0
    /\ version = 0
    /\ \E summary \in SummaryTables :
        wh = [WarehouseAt(1) EXCEPT !.kpi = [k \in Selectors |-> summary]]
    /\ faultsLeft = MaxFaults
    /\ requests = MaxRequests - 1

NextBuild ==
    \E t \in Threads :
        \/ Request(t)
        \/ GetRelease(t)
        \/ BuildKpi(t)
        \/ BuildChart(t)
        \/ BuildRuns(t)
        \/ UpdateTvRaise(t)
        \/ AcquirePut(t)
        \/ PutRelease(t)

SpecBuild == InitBuild /\ [][NextBuild]_vars

BuiltPcs == {"u_lock2", "u_put"}

\* C9: when the summary fetch returned no row, the build ran no series and
\* no runs statement, and its payload is the single placeholder card, both
\* charts as "No data", the "No active runs" marker, and a header without a
\* shift label.
C9_NoDataPayload ==
    \A t \in Threads :
        (pc[t] \in BuiltPcs /\ loc[t].kpi_df = Some(<<>>)) =>
            LET p == BuildResult(loc[t], selected[t]) IN
                /\ issued[t] = <<"kpi">>
                /\ p.cards = << PlaceholderCard(selected[t]) >>
                /\ p.ppmh_fig.annotation = Some("No data")
                /\ p.ppmh_fig.traces = <<>>
                /\ p.bph_fig.annotation = Some("No data")
                /\ p.bph_fig.traces = <<>>
                /\ p.run_table.marker = Some("No active runs")
                /\ p.run_table.rows = <<>>
                /\ p.header.shift = None

\* A build for the past date has finished on a summary view without a row
\* for it, the statement itself having run.
C9_Witness ==
    \E t \in Threads :
        /\ pc[t] = "u_put"
        /\ selected[t] = Some("D1")
        /\ loc[t].kpi_df = Some(<<>>)
        /\ wh.kpi[Some("D1")] = <<>>
        /\ faultsLeft = MaxFaults

\* d = (v - t) / t * 100 when v and t are both present and t # 0, else d = 0.
DeltaAsClaimed(d, v, t) ==
    IF v # None /\ t # None /\ t # Some(0)
    THEN d.num * Val(t) = (Val(v) - Val(t)) * 100 * d.den
    ELSE d.num = 0

\* C10: for a summary row, each of the three deltas is (value - target) /
\* target * 100 when value and target are present and target # 0, for a
\* value of 0 too, and 0 otherwise.
C10_DeltaPct ==
    \A t \in Threads :
        (loc[t].kpi # None /\ loc[t].kpi_df # Some(<<>>)) =>
            LET row == Val(loc[t].kpi_df)[1]
                d   == Val(Val(loc[t].kpi).deltas)
            IN  /\ DeltaAsClaimed(d.bph, row.BINS_PER_HOUR,
                                  row.BIN_HOUR_TARGET_WEIGHTED)
                /\ DeltaAsClaimed(d.ppmh, row.STAMPER_PPMH,
                                  row.PACKS_MANHOUR_TARGET_WEIGHTED)
                /\ DeltaAsClaimed(d.bins, row.TOTAL_BINS,
                                  row.BINS_TARGET_FULL_SHIFT)

-----------------------------------------------------------------------------
(* The refresher and one request handler sharing _conn, with get_conn and  *)
(* query step by step; and the refresher alone, its calls one at a time.   *)

InitConnSeq ==
    /\ ColorIdle
    /\ ConnIdle
    /\ CacheEmpty
    /\ ThreadsAt([t \in Threads |-> IF t = Worker THEN "b_kpi" ELSE "off"])
    /\ now = 0
    /\ version = 1
    /\ wh = WarehouseAt(1)
    /\ faultsLeft = MaxConnFaults
    /\ requests = 0

\* The steps of one build, get_conn and query step by step.
BuildSteps(t) ==
    \/ KpiCall(t)
    \/ KpiRet(t)
    \/ ChartCall(t)
    \/ ChartRet(t)
    \/ RunsCall(t)
    \/ RunsRet(t)
    \/ GcCheck(t)
    \/ GcConnect(t)
    \/ GcFallback(t)
    \/ GcReturn(t)
    \/ QExecute(t)
    \/ QFetch(t)
    \/ QExcept(t)

NextConnSeq ==
    \/ ConnDrop
    \/ \E t \in Threads :
        \/ BuildSteps(t)
        \/ RefreshAcquire(t)
        \/ RefreshPut(t)
        \/ Sleep(t)

SpecConnSeq == InitConnSeq /\ [][NextConnSeq]_vars

InitConn ==
    /\ ColorIdle
    /\ ConnIdle
    /\ CacheEmpty
    /\ ThreadsAt([t \in Threads |-> CASE t = Worker -> "b_kpi"
                                      [] t = "h1"   -> "idle"
                                      [] OTHER      -> "off"])
    /\ now = 0
    /\ version = 1
    /\ wh = WarehouseAt(1)
    /\ faultsLeft = MaxFaults
    /\ requests = MaxRequests - 1

NextConn ==
    \/ ConnDrop
    \/ \E t \in Threads :
        \/ BuildSteps(t)
        \/ RefreshAcquire(t)
        \/ RefreshPut(t)
        \/ Request(t)
        \/ GetRelease(t)
        \/ ReturnHit(t)
        \/ AcquirePut(t)
        \/ PutRelease(t)

SpecConn == InitConn /\ [][NextConn]_vars

\* The creation attempts among the events of a get_conn.
Attempts(ev) ==
    Cardinality({i \in 1..Len(ev) : ev[i] \in {"created", "create_failed"}})

\* The payload of a build without a summary row.
IsNoDataPayload(p, selected_date) ==
    /\ p.cards = << PlaceholderCard(selected_date) >>
    /\ p.ppmh_fig.annotation = Some("No data") /\ p.ppmh_fig.traces = <<>>
    /\ p.bph_fig.annotation = Some("No data") /\ p.bph_fig.traces = <<>>
    /\ p.run_table = [marker |-> Some("No active runs"), rows |-> <<>>]
    /\ p.header.shift = None

HasFailed(t, kind) == \E i \in 1..Len(loc[t].failed) : loc[t].failed[i] = kind

\* C6: no call of query raises: whatever fails in it (making the connection,
\* running the statement, fetching the rows), it returns the empty table,
\* and the rows of the view otherwise; so every build ends with a payload of
\* six components whichever of its fetches failed, and a build whose summary
\* fetch failed ends with the "no data" payload.
C6_QueryNeverRaises ==
    \A t \in Threads :
        /\ pc[t] # "raised"
        /\ pc[t] = "q_ret" =>
            qres[t] = IF gcTrace[t].failed # None
                      THEN Some(<<>>)
                      ELSE Some(Rows(wh, Val(qcall[t]).kind, Val(qcall[t]).arg))
        /\ pc[t] \in {"w_lock", "w_put"} =>
            LET p == BuildResult(loc[t], selected[t]) IN
                /\ Complete(p)
                /\ HasFailed(t, "kpi") =>
                    /\ issued[t] = <<"kpi">>
                    /\ IsNoDataPayload(p, selected[t])

\* The refresher holds a finished payload of a build whose summary fetch
\* failed.
C6_Witness ==
    /\ pc[Worker] = "w_put"
    /\ loc[Worker].failed = <<"kpi">>
    /\ loc[Worker].kpi_df = Some(<<>>)
    /\ wh.kpi[None] # <<>>

\* The ways through get_conn that return a handle: the open handle it found,
\* without creating; a handle it created, at the first or second attempt,
\* the handle it found being stale or its check having failed.
ReturnsAsClaimed(t) ==
    LET tr == gcTrace[t] IN
        \/ /\ tr.events = <<"open">>
           /\ tr.entry # None
           /\ gcRet[t] = tr.entry
           /\ tr.made = <<>>
        \/ /\ tr.events = <<"stale", "created">>
           /\ gcRet[t] = Some(tr.made[1])
           /\ gcRet[t] # tr.entry
        \/ /\ tr.events \in {<<"stale", "create_failed", "created">>,
                             <<"check_failed", "created">>}
           /\ gcRet[t] = Some(tr.made[1])
           /\ gcRet[t] # tr.entry

\* The ways through get_conn that raise: the creation of the except block
\* failed, after a failed creation or a failed check.
RaisesAsClaimed(t) ==
    /\ gcTrace[t].events \in {<<"stale", "create_failed", "create_failed">>,
                              <<"check_failed", "create_failed">>}
    /\ gcTrace[t].made = <<>>

ConnectRaised(t) == pc[t] = "q_except" /\ gcTrace[t].failed = Some("connect")

\* C7 as stated: get_conn returns the handle it found when that is open,
\* creating nothing; else creates one; on a failure of the check or of the
\* creation it discards the handle it found and makes exactly one more
\* creation attempt, never more than two in a call, whose failure goes to
\* the caller.
C7_DiscardsThenRetriesOnce ==
    \A t \in Threads :
        /\ Attempts(gcTrace[t].events) <= 2
        /\ pc[t] = "q_execute" => ReturnsAsClaimed(t)
        /\ ConnectRaised(t) =>
            /\ RaisesAsClaimed(t)
            /\ gcTrace[t].entry # None => curConn # gcTrace[t].entry

\* C7 as the code has it: the same, but the handle found is replaced only by
\* a creation that succeeds; when the second attempt fails, _conn is the
\* handle the call found.
C7_ReplacesOnSuccessOnly ==
    \A t \in Threads :
        /\ Attempts(gcTrace[t].events) <= 2
        /\ pc[t] = "q_execute" => ReturnsAsClaimed(t)
        /\ ConnectRaised(t) =>
            /\ RaisesAsClaimed(t)
            /\ curConn = gcTrace[t].entry

\* The check of the handle failed and then the one creation attempt failed.
C7_Witness ==
    /\ ConnectRaised(Worker)
    /\ gcTrace[Worker].events = <<"check_failed", "create_failed">>
    /\ gcTrace[Worker].entry # None

OpenConns == {i \in 1..Len(conns) : conns[i] = "open"}

\* C8: with the refresher and a handler calling get_conn at once, at most
\* one connection is open, and every open connection is the one _conn
\* holds, as long as nothing has failed.
C8_SingleSharedConnection ==
    faultsLeft = MaxFaults =>
        /\ Cardinality(OpenConns) <= 1
        /\ \A i \in OpenConns : curConn = Some(i)

-----------------------------------------------------------------------------
(* The payload as a whole: one state of the warehouse behind it, and the   *)
(* same content from the same rows.                                        *)

\* The cards, charts and run table of p are those of the rows the views
\* held at version v, for selector k.
DerivedFrom(p, k, v) ==
    LET w   == WarehouseAt(v)
        kp  == KpiStep(k, Rows(w, "kpi", k), 0)
        key == kp.date_shift_key
        ch  == ChartStep(IF key = None THEN <<>> ELSE Rows(w, "chart", key))
        rn  == RunsStep(IF key = None THEN <<>> ELSE Rows(w, "runs", key), 0)
    IN  /\ p.cards = kp.cards
        /\ p.ppmh_fig = ch.ppmh_fig
        /\ p.bph_fig = ch.bph_fig
        /\ p.run_table = rn.run_table

\* C11: every payload in the cache is self-consistent: its cards, its two
\* charts and its run table all come from one and the same version of the
\* warehouse rows, whatever changes of the data happen while the build runs
\* its three fetches.
C11_PayloadSelfConsistent ==
    \A k \in DOMAIN cache :
        \E v \in 0..MaxVersion : DerivedFrom(cache[k], k, v)

\* The threads holding the payload of a finished build.
FinishedPcs == {"w_lock", "w_put", "u_lock2", "u_put"}

\* The same cards, the same chart data and colours, the same run table.
SameContent(p, q) ==
    /\ p.cards = q.cards
    /\ p.ppmh_fig = q.ppmh_fig
    /\ p.bph_fig = q.bph_fig
    /\ p.run_table = q.run_table

\* Two finished builds for one selector, the views not having changed from
\* the first fetch of either until now.
SameRows(t1, t2) ==
    /\ t1 # t2
    /\ pc[t1] \in FinishedPcs
    /\ pc[t2] \in FinishedPcs
    /\ selected[t1] = selected[t2]
    /\ loc[t1].vers.kpi = Some(version)
    /\ loc[t2].vers.kpi = Some(version)

=============================================================================
